---- MODULE Spec2Model ----
(***************************************************************************)
(* Model of the arXiv OAI-PMH ingestion pipeline of ingest/ingest_arxiv.py: *)
(* main, ensure_index, month_range, ingest_range, fetch_page, parse_record  *)
(* and the two filters; and of the coding agent loop run_agent_loop of      *)
(* modal_runner/app.py.                                                     *)
(*                                                                          *)
(* Representation of Python values:                                         *)
(*   - an optional value is a sequence of length 0 (None) or 1 (the value); *)
(*   - a text (identifier, token, category) is a sequence of characters,    *)
(*     the character " " standing for any whitespace;                       *)
(*   - a date string YYYY-MM-DD is the sequence of its zero-padded numeric  *)
(*     fields <<y, m, d>> (years have four digits, so the order of the      *)
(*     field sequences is the order of the strings); "" is <<>>; a date     *)
(*     followed by trailing characters is a longer sequence.                *)
(***************************************************************************)
EXTENDS Integers, Sequences, FiniteSets, TLC

VARIABLES
    args,        \* parsed command line (argparse namespace)
    today,       \* date.today().isoformat()
    indexExists, \* the target index exists in Elasticsearch
    semantic,    \* INDEX_NAME ends with "-semantic"
    pc,          \* position of main
    gen,         \* state of the month_range generator
    window,      \* (label, from_d, until_d) of the running ingest_range call
    ipc,         \* position of ingest_range (harvest driver state)
    token,       \* ingest_range local: token
    page,        \* ingest_range local: page
    total,       \* ingest_range local: total
    records,     \* ingest_range local: records
    filtered,    \* ingest_range local: filtered
    grand,       \* main local: total (backfill mode)
    store,       \* documents held by the Elasticsearch index
    err,         \* exception propagating out of the running call
    esCalls,     \* history: number of Elasticsearch requests issued
    bulkCalls,   \* history: number of bulk requests issued
    oaiReqs,     \* history: number of OAI requests issued
    sleeps,      \* history: number of time.sleep(1) calls in this window
    lastReq,     \* history: parameters of the last OAI request
    lastResp,    \* history: response to the last OAI request
    retTok,      \* history: token returned by the last page of the window
    submitted,   \* history: actions of the last bulk call of this iteration
    yielded,     \* history: windows yielded by month_range
    run,         \* repeated call: 1 = first ingest_range call, 2 = second
    served,      \* repeated call: the pages of the first call, in order
    store1,      \* repeated call: store at the end of the first call
    apc,         \* position of run_agent_loop
    step_num,    \* run_agent_loop: loop variable of range(MAX_AGENT_STEPS)
    messages,    \* run_agent_loop local: messages (length, first role, last)
    steps,       \* run_agent_loop local: len(steps), the commands executed
    result,      \* the dict run_agent_loop returned
    linked,      \* history: each message so far follows its predecessor
    apiCalls,    \* history: number of client.messages.create calls
    lastStop     \* history: stop_reason of the last response, or "exception"

vars == <<args, today, indexExists, semantic, pc, gen, window, ipc, token,
          page, total, records, filtered, grand, store, err, esCalls,
          bulkCalls, oaiReqs, sleeps, lastReq, lastResp, retTok, submitted,
          yielded, run, served, store1, apc, step_num, messages, steps,
          result, linked, apiCalls, lastStop>>

----------------------------------------------------------------------------
(* Bounds *)

MaxPages == 2        \* pages fetched per window
MaxMonths == 3       \* months spanned by a backfill request
MaxIdLen == 3        \* characters of a raw identifier given to parse_record

----------------------------------------------------------------------------
(* Python values *)

None == <<>>
Some(x) == <<x>>

Truthy(opt) == opt # None /\ opt[1] # <<>>

RECURSIVE StrLt(_, _)
StrLt(a, b) ==
    IF b = <<>> THEN FALSE
    ELSE IF a = <<>> THEN TRUE
    ELSE IF a[1] < b[1] THEN TRUE
    ELSE IF a[1] > b[1] THEN FALSE
    ELSE StrLt(Tail(a), Tail(b))

StrLeq(a, b) == ~StrLt(b, a)

StrMin(a, b) == IF StrLt(b, a) THEN b ELSE a

RECURSIVE LStrip(_)
LStrip(s) == IF s # <<>> /\ s[1] = " " THEN LStrip(Tail(s)) ELSE s

RECURSIVE RStrip(_)
RStrip(s) ==
    IF s # <<>> /\ s[Len(s)] = " " THEN RStrip(SubSeq(s, 1, Len(s) - 1)) ELSE s

Strip(s) == RStrip(LStrip(s))

Digits == {"0", "1", "2", "3", "4", "5", "6", "7", "8", "9"}

\* re.sub(r"v\d$", "", s): a suffix of exactly one digit
StripVersion_one_digit(s) ==
    IF Len(s) >= 2 /\ s[Len(s) - 1] = "v" /\ s[Len(s)] \in Digits
    THEN SubSeq(s, 1, Len(s) - 2)
    ELSE s

\* re.sub(r"v\d+$", "", s)
StripVersion(s) ==
    LET m == {i \in 1..(Len(s) - 1) :
                s[i] = "v" /\ \A j \in (i + 1)..Len(s) : s[j] \in Digits}
    IN IF m = {} THEN s
       ELSE SubSeq(s, 1, (CHOOSE i \in m : \A k \in m : i <= k) - 1)

StartsWith(s, p) == Len(s) >= Len(p) /\ SubSeq(s, 1, Len(p)) = p

\* _text(el): the stripped text of an element, None when absent or blank
text(el) ==
    IF el = None THEN None
    ELSE LET t == Strip(el[1]) IN IF t = <<>> THEN None ELSE Some(t)

----------------------------------------------------------------------------
(* Calendar: datetime.date arithmetic *)

IsLeap(y) == (y % 4 = 0) /\ ((y % 100 # 0) \/ (y % 400 = 0))

DaysInMonth(y, m) ==
    IF m = 2 THEN (IF IsLeap(y) THEN 29 ELSE 28)
    ELSE IF m \in {4, 6, 9, 11} THEN 30 ELSE 31

DaysBeforeYear(y) ==
    LET p == y - 1 IN p * 365 + (p \div 4) - (p \div 100) + (p \div 400)

RECURSIVE DaysBeforeMonth(_, _)
DaysBeforeMonth(y, m) ==
    IF m = 1 THEN 0 ELSE DaysBeforeMonth(y, m - 1) + DaysInMonth(y, m - 1)

ToOrdinal(d) == DaysBeforeYear(d[1]) + DaysBeforeMonth(d[1], d[2]) + d[3]

\* date(y, m, d) - timedelta(days = n), for a result in the month of the
\* date or in the month before it
DateMinusDays(d, n) ==
    LET prev == IF d[2] = 1 THEN <<d[1] - 1, 12>> ELSE <<d[1], d[2] - 1>>
        ord == ToOrdinal(d) - n
    IN CHOOSE r \in {<<ym[1], ym[2], dd>> : ym \in {prev, <<d[1], d[2]>>}, dd \in 1..31} :
           /\ r[3] <= DaysInMonth(r[1], r[2])
           /\ ToOrdinal(r) = ord

----------------------------------------------------------------------------
(* Record Parser *)

CsAI == <<"cs", ".", "AI">>
CsDS == <<"cs", ".", "DS">>
MathCO == <<"math", ".", "CO">>

\* A raw <record>: header status, the arXiv wrapper found by the namespaced
\* lookup ("arXiv": present with children; "none": missing or childless),
\* and the metadata fields as optional element texts.
Raw(deleted, meta, wrapper, id, title, created, cats) ==
    [deleted |-> deleted, meta |-> meta, wrapper |-> wrapper, id |-> id,
     title |-> title, created |-> created, cats |-> cats]

\* parse_record: a document, None, or the exception it raises
parse_record(rec) ==
    IF ~rec.meta THEN [kind |-> "none"]
    ELSE IF rec.wrapper # "arXiv"
    THEN \* meta.find(".//*[local-name()='arXiv']") is an invalid predicate
         [kind |-> "raise", err |-> [type |-> "SyntaxError"]]
    ELSE LET arxiv_id == text(rec.id)
             t == text(rec.title)
             title == IF t = None THEN <<>> ELSE t[1]
             created == IF rec.created = None THEN <<>> ELSE rec.created[1]
         IN IF ~Truthy(arxiv_id) THEN [kind |-> "none"]
            ELSE [kind |-> "doc",
                  doc |-> [arxiv_id |-> StripVersion(arxiv_id[1]),
                           title |-> title,
                           categories |-> rec.cats,
                           created |-> created]]

----------------------------------------------------------------------------
(* Page Fetcher *)

\* The query string of a URL, cut at each "&"
RECURSIVE Segments(_)
Segments(q) ==
    IF q = <<>> THEN << <<>> >>
    ELSE LET rest == Segments(Tail(q)) IN
         IF Head(q) = "&" THEN << <<>> >> \o rest
         ELSE << <<Head(q)>> \o rest[1] >> \o Tail(rest)

\* The request parameters a server reads from a query string: name=value
\* pairs separated by "&", the value running from the first "=" to the end
\* of the pair, "+" read as a space; the first pair of a name counts.
ParseQuery(q) ==
    LET NonEmpty(seg) == seg # <<>>
        segs == SelectSeq(Segments(q), NonEmpty)
        Eq(seg) == {i \in 1..Len(seg) : seg[i] = "="}
        Cut(seg) == IF Eq(seg) = {} THEN Len(seg) + 1
                    ELSE CHOOSE i \in Eq(seg) : \A j \in Eq(seg) : i <= j
        Name(seg) == IF Cut(seg) = 2 THEN seg[1] ELSE ""
        Value(seg) == [i \in 1..(Len(seg) - Cut(seg)) |->
                          IF seg[Cut(seg) + i] = "+" THEN " " ELSE seg[Cut(seg) + i]]
        First(k) == CHOOSE i \in 1..Len(segs) :
                        Name(segs[i]) = k /\ \A j \in 1..(i - 1) : Name(segs[j]) # k
    IN [k \in {Name(segs[i]) : i \in 1..Len(segs)} |-> Value(segs[First(k)])]

\* Request parameters of fetch_page's URL.  With a token the URL is an
\* f-string that takes the token as it is; without one the parameters go
\* through urlencode, which quotes each value so that it arrives unchanged.
Request(from_d, until_d, tok) ==
    IF Truthy(tok)
    THEN ParseQuery(<<"verb", "=", "ListRecords", "&", "resumptionToken", "=">> \o tok[1])
    ELSE [verb |-> <<"ListRecords">>, metadataPrefix |-> <<"arXiv">>,
          from |-> from_d, until |-> until_d]

\* The records loop without the test of the header status
RECURSIVE ParseAll_keeps_deleted(_, _)
ParseAll_keeps_deleted(recs, acc) ==
    IF recs = <<>> THEN [raised |-> None, docs |-> acc]
    ELSE LET r == parse_record(Head(recs)) IN
         IF r.kind = "raise" THEN [raised |-> Some(r.err), docs |-> acc]
         ELSE IF r.kind = "doc"
              THEN ParseAll_keeps_deleted(Tail(recs), Append(acc, r.doc))
              ELSE ParseAll_keeps_deleted(Tail(recs), acc)

\* Records loop of fetch_page: skip deleted headers, parse, keep documents.
\* The result is [raised, docs]; the first exception of parse_record ends it.
RECURSIVE ParseAll(_, _)
ParseAll(recs, acc) ==
    IF recs = <<>> THEN [raised |-> None, docs |-> acc]
    ELSE LET rec == Head(recs) IN
         IF rec.deleted THEN ParseAll(Tail(recs), acc)
         ELSE LET r == parse_record(rec) IN
              IF r.kind = "raise" THEN [raised |-> Some(r.err), docs |-> acc]
              ELSE IF r.kind = "doc" THEN ParseAll(Tail(recs), Append(acc, r.doc))
              ELSE ParseAll(Tail(recs), acc)

\* (rt.text or "").strip() or None, for a resumptionToken element rt
NextToken(rt) ==
    LET t == Strip(rt[1]) IN IF t = <<>> THEN None ELSE Some(t)

\* fetch_page with the records loop moved ahead of the OAI error test
fetch_page_parse_first(from_d, until_d, tok, resp) ==
    IF ~resp.ok
    THEN [raised |-> Some([type |-> "RuntimeError", what |-> "OAI failed",
                           status |-> resp.status]),
          docs |-> <<>>, ntok |-> None]
    ELSE IF ~resp.wellFormed
    THEN [raised |-> Some([type |-> "ParseError"]), docs |-> <<>>, ntok |-> None]
    ELSE LET p == ParseAll(resp.records, <<>>) IN
         IF p.raised # None
         THEN [raised |-> p.raised, docs |-> <<>>, ntok |-> None]
         ELSE IF resp.error # None
         THEN [raised |-> Some([type |-> "RuntimeError", what |-> "OAI",
                                code |-> resp.error[1].code,
                                message |-> Strip(resp.error[1].message)]),
               docs |-> <<>>, ntok |-> None]
         ELSE IF resp.rt = None
         THEN [raised |-> Some([type |-> "AttributeError"]),
               docs |-> <<>>, ntok |-> None]
         ELSE [raised |-> None, docs |-> p.docs, ntok |-> NextToken(resp.rt)]

\* fetch_page(from_d, until_d, token) against the response resp
fetch_page(from_d, until_d, tok, resp) ==
    IF ~resp.ok
    THEN [raised |-> Some([type |-> "RuntimeError", what |-> "OAI failed",
                           status |-> resp.status]),
          docs |-> <<>>, ntok |-> None]
    ELSE IF ~resp.wellFormed
    THEN [raised |-> Some([type |-> "ParseError"]), docs |-> <<>>, ntok |-> None]
    ELSE IF resp.error # None
    THEN [raised |-> Some([type |-> "RuntimeError", what |-> "OAI",
                           code |-> resp.error[1].code,
                           message |-> Strip(resp.error[1].message)]),
          docs |-> <<>>, ntok |-> None]
    ELSE LET p == ParseAll(resp.records, <<>>) IN
         IF p.raised # None
         THEN [raised |-> p.raised, docs |-> <<>>, ntok |-> None]
         ELSE IF resp.rt = None
         THEN \* rt is None: rt.text raises
              [raised |-> Some([type |-> "AttributeError"]),
               docs |-> <<>>, ntok |-> None]
         ELSE [raised |-> None, docs |-> p.docs, ntok |-> NextToken(resp.rt)]

----------------------------------------------------------------------------
(* Range Filter *)

\* filter_in_range with a bug: the upper bound is exclusive
filter_in_range_exclusive(docs, from_d, until_d) ==
    LET Keep(d) == StrLeq(from_d, d.created) /\ StrLt(d.created, until_d)
    IN SelectSeq(docs, Keep)

filter_in_range(docs, from_d, until_d) ==
    LET Keep(d) == StrLeq(from_d, d.created) /\ StrLeq(d.created, until_d)
    IN SelectSeq(docs, Keep)

\* filter_cs_only with all() in place of any()
filter_cs_only_all(docs) ==
    LET Keep(d) == \A i \in 1..Len(d.categories) :
                       StartsWith(d.categories[i], <<"cs", ".">>)
    IN SelectSeq(docs, Keep)

\* [d for d in docs if any((c or "").startswith("cs.") for c in categories)]
filter_cs_only(docs) ==
    LET Keep(d) == \E i \in 1..Len(d.categories) :
                       StartsWith(d.categories[i], <<"cs", ".">>)
    IN SelectSeq(docs, Keep)

----------------------------------------------------------------------------
(* Bulk Indexer *)

\* Actions with a bug: the store key is not the normalized identifier
Actions_by_title(docs) ==
    [i \in 1..Len(docs) |-> [_id |-> docs[i].title, _source |-> docs[i]]]

\* The bulk actions built by ingest_range
Actions(docs) ==
    [i \in 1..Len(docs) |-> [_id |-> docs[i].arxiv_id, _source |-> docs[i]]]

\* The index's own validation: an empty _id and a created value that is not
\* a date of the mapped formats are rejected per item.
Rejected(a) == a._id = <<>> \/ Len(a._source.created) # 3

\* bulk(..., raise_on_error=False): index operations, applied in order
RECURSIVE Bulk(_, _)
Bulk(st, actions) ==
    IF actions = <<>> THEN st
    ELSE LET a == Head(actions) IN
         IF Rejected(a) THEN Bulk(st, Tail(actions))
         ELSE Bulk({e \in st : e._id # a._id} \cup {a}, Tail(actions))

----------------------------------------------------------------------------
(* Backfill Planner *)

\* parse(ym) of month_range: the month must be in 1..12
ParseOk(ym) == 1 <= ym[2] /\ ym[2] <= 12

\* MonthLoop with a bug: until_d is not clamped to today
MonthLoop_unclamped(y, m, end_ym, tdy) ==
    LET ey == end_ym[1]
        em == end_ym[2]
    IN IF ~(y < ey \/ (y = ey /\ m <= em))
       THEN [kind |-> "stop"]
       ELSE LET from_d == <<y, m, 1>>
                last == IF m < 12 THEN DateMinusDays(<<y, m + 1, 1>>, 1)
                                  ELSE <<y, 12, 31>>
            IN IF StrLt(tdy, from_d)
               THEN [kind |-> "stop"]
               ELSE [kind |-> "yield",
                     win |-> [label |-> <<y, m>>, from_d |-> from_d,
                              until_d |-> last],
                     gen |-> [st |-> "suspended", y |-> y, m |-> m]]

\* MonthLoop with a bug: every month is taken to end 29 days after its start
MonthLoop_thirty(y, m, end_ym, tdy) ==
    LET ey == end_ym[1]
        em == end_ym[2]
    IN IF ~(y < ey \/ (y = ey /\ m <= em))
       THEN [kind |-> "stop"]
       ELSE LET from_d == <<y, m, 1>>
                until_d == StrMin(<<y, m, 30>>, tdy)
            IN IF StrLt(tdy, from_d)
               THEN [kind |-> "stop"]
               ELSE [kind |-> "yield",
                     win |-> [label |-> <<y, m>>, from_d |-> from_d,
                              until_d |-> until_d],
                     gen |-> [st |-> "suspended", y |-> y, m |-> m]]

\* The loop of month_range entered with (y, m): the generator returns, or
\* yields a window and suspends at (y, m).
MonthLoop(y, m, end_ym, tdy) ==
    LET ey == end_ym[1]
        em == end_ym[2]
    IN IF ~(y < ey \/ (y = ey /\ m <= em))
       THEN [kind |-> "stop"]
       ELSE LET from_d == <<y, m, 1>>
                last == IF m < 12 THEN DateMinusDays(<<y, m + 1, 1>>, 1)
                                  ELSE <<y, 12, 31>>
                until_d == StrMin(last, tdy)
            IN IF StrLt(tdy, from_d)
               THEN [kind |-> "stop"]
               ELSE [kind |-> "yield",
                     win |-> [label |-> <<y, m>>, from_d |-> from_d,
                              until_d |-> until_d],
                     gen |-> [st |-> "suspended", y |-> y, m |-> m]]

\* next() on the generator month_range(start_ym, end_ym)
month_range(g, start_ym, end_ym, tdy) ==
    IF g.st = "new"
    THEN IF ~ParseOk(start_ym) \/ ~ParseOk(end_ym)
         THEN [kind |-> "raise", err |-> [type |-> "ValueError", what |-> "Invalid YYYY-MM"]]
         ELSE IF start_ym[1] * 12 + start_ym[2] > end_ym[1] * 12 + end_ym[2]
         THEN [kind |-> "raise", err |-> [type |-> "ValueError", what |-> "start must be <= end"]]
         ELSE MonthLoop(start_ym[1], start_ym[2], end_ym, tdy)
    ELSE IF g.m + 1 > 12
         THEN MonthLoop(g.y + 1, 1, end_ym, tdy)
         ELSE MonthLoop(g.y, g.m + 1, end_ym, tdy)

----------------------------------------------------------------------------
(* Inputs *)

Jan1 == <<2024, 1, 1>>
Jan31 == <<2024, 1, 31>>

rA1 == Raw(FALSE, TRUE, "arXiv", Some(<<"a", "v", "1">>), Some(<<"T1">>), Some(Jan1), <<CsAI>>)
rA2 == Raw(FALSE, TRUE, "arXiv", Some(<<"a", "v", "2">>), Some(<<"T2">>), Some(Jan31), <<MathCO>>)
rV == Raw(FALSE, TRUE, "arXiv", Some(<<"v", "2">>), Some(<<"T3">>), Some(<<2024, 1, 15>>), <<MathCO, CsDS>>)
rOld == Raw(FALSE, TRUE, "arXiv", Some(<<"b">>), Some(<<"T4">>), Some(<<2023, 12, 31>>), <<CsAI>>)
rNew == Raw(FALSE, TRUE, "arXiv", Some(<<"c">>), Some(<<"T5">>), Some(<<2024, 2, 1>>), <<CsAI>>)
rNoId == Raw(FALSE, TRUE, "arXiv", None, Some(<<"T6">>), Some(Jan1), <<CsAI>>)
rBlankId == Raw(FALSE, TRUE, "arXiv", Some(<<" ">>), Some(<<"T6">>), Some(Jan1), <<CsAI>>)
rDel == Raw(TRUE, TRUE, "arXiv", Some(<<"d">>), Some(<<"T7">>), Some(Jan1), <<CsAI>>)
rDelBare == Raw(TRUE, TRUE, "none", Some(<<"h">>), Some(<<"T7">>), Some(Jan1), <<CsAI>>)
rMixed == Raw(FALSE, TRUE, "arXiv", Some(<<"m">>), Some(<<"T10">>), Some(<<2024, 1, 20>>), <<MathCO, CsDS>>)
rUpper == Raw(FALSE, TRUE, "arXiv", Some(<<"u">>), Some(<<"T11">>), Some(<<2024, 1, 10>>),
              << <<"CS", ".", "AI">>, <<"cs">>, <<"math", ".", "cs", ".">> >>)
rBare == Raw(FALSE, TRUE, "none", Some(<<"g">>), Some(<<"T8">>), Some(Jan1), <<CsAI>>)
rNoMeta == Raw(FALSE, FALSE, "none", None, None, None, <<>>)
rNoDate == Raw(FALSE, TRUE, "arXiv", Some(<<"e">>), None, None, <<>>)
rBad == Raw(FALSE, TRUE, "arXiv", Some(<<"f">>), Some(<<"T9">>), Some(<<2024, 1, 15, 0>>), <<MathCO>>)
rPad == Raw(FALSE, TRUE, "arXiv", Some(<<" ", "a", " ">>), Some(<<" ", "T0">>), Some(<<2024, 1, 10>>), <<>>)

PageContents ==
    { <<>>, <<rA1>>, <<rA1, rA2>>, <<rA2, rPad>>, <<rV>>, <<rOld, rA1, rNew>>,
      <<rNoId, rDel>>, <<rBlankId, rNoMeta>>, <<rBare>>, <<rNoDate, rBad>>,
      <<rNew>>, <<rDelBare, rA1>>,
      <<rA2, rMixed, rUpper, rA1>> }

RtElements ==
    { None, Some(<<>>), Some(<<" ">>), Some(<<"t1">>), Some(<<" ", "t2", " ">>),
      Some(<<"t3", "+", "t4">>), Some(<<"t5", "&", "from", "=", "x">>) }

OkPage(recs, rt) ==
    [ok |-> TRUE, status |-> 200, wellFormed |-> TRUE, error |-> None,
     records |-> recs, rt |-> rt]

BadArgument == [code |-> "badArgument", message |-> <<" ", "bad", " ">>]

ErrorResponses ==
    { [ok |-> FALSE, status |-> 503, wellFormed |-> TRUE, error |-> None,
       records |-> <<>>, rt |-> None],
      [ok |-> TRUE, status |-> 200, wellFormed |-> FALSE, error |-> None,
       records |-> <<>>, rt |-> None],
      [ok |-> TRUE, status |-> 200, wellFormed |-> TRUE, error |-> Some(BadArgument),
       records |-> <<>>, rt |-> None],
      [ok |-> TRUE, status |-> 200, wellFormed |-> TRUE, error |-> Some(BadArgument),
       records |-> <<rA1>>, rt |-> Some(<<"t1">>)],
      [ok |-> TRUE, status |-> 200, wellFormed |-> TRUE, error |-> Some(BadArgument),
       records |-> <<rBare>>, rt |-> None] }

Responses == {OkPage(c, rt) : c \in PageContents, rt \in RtElements} \cup ErrorResponses

----------------------------------------------------------------------------
(* State *)

NoWindow == [label |-> <<>>, from_d |-> <<>>, until_d |-> <<>>]

Backfill == Truthy(args.start) /\ Truthy(args.end)
Single == ~Backfill /\ Truthy(args.from_) /\ Truthy(args.until)

Args(start, end, from_, until, cs_only) ==
    [start |-> start, end |-> end, from_ |-> from_, until |-> until,
     cs_only |-> cs_only]

PipelineArgs ==
    {Args(None, None, Some(Jan1), Some(Jan31), cs) : cs \in BOOLEAN}
    \cup {Args(Some(<<2024, 1>>), Some(<<2024, 2>>), None, None, FALSE)}

\* messages before run_agent_loop has built the list
NoMessages == [n |-> 0, first |-> "", last |-> [role |-> "", content |-> <<>>]]

\* run_agent_loop is not running
AgentOff ==
    /\ apc = "off"
    /\ step_num = 0
    /\ messages = NoMessages
    /\ steps = 0
    /\ result = None
    /\ linked = TRUE
    /\ apiCalls = 0
    /\ lastStop = "none"

\* The pipeline with main at position p, nothing done yet
PipelineAt(a, tdy, p) ==
    /\ args = a
    /\ today = tdy
    /\ indexExists \in BOOLEAN
    /\ semantic \in BOOLEAN
    /\ pc = p
    /\ gen = [st |-> "new", y |-> 0, m |-> 0]
    /\ window = NoWindow
    /\ ipc = "idle"
    /\ token = None
    /\ page = 0
    /\ total = 0
    /\ records = <<>>
    /\ filtered = <<>>
    /\ grand = 0
    /\ store = {}
    /\ err = None
    /\ esCalls = 0
    /\ bulkCalls = 0
    /\ oaiReqs = 0
    /\ sleeps = 0
    /\ lastReq = None
    /\ lastResp = None
    /\ retTok = None
    /\ submitted = None
    /\ yielded = <<>>
    /\ run = 1
    /\ served = <<>>
    /\ store1 = {}

\* The state when main starts, given the command line and the environment
Start(a, tdy) == PipelineAt(a, tdy, "ensure_index") /\ AgentOff

Init == \E a \in PipelineArgs : Start(a, <<2024, 2, 10>>)

envVars == <<args, today, semantic>>
agentVars == <<apc, step_num, messages, steps, result, linked, apiCalls, lastStop>>
localVars == <<window, ipc, token, page, total, records, filtered>>
histVars == <<sleeps, lastReq, lastResp, retTok, submitted>>
repeatVars == <<run, served, store1>>

----------------------------------------------------------------------------
(* Harvest Driver: ingest_range *)

\* Entry of ingest_range(es, from_d, until_d, cs_only)
IngestCall(win) ==
    /\ window' = win
    /\ ipc' = "FETCHING"
    /\ token' = None
    /\ page' = 0
    /\ total' = 0
    /\ records' = <<>>
    /\ filtered' = <<>>
    /\ sleeps' = 0
    /\ lastReq' = None
    /\ lastResp' = None
    /\ retTok' = None
    /\ submitted' = None

\* The locals of a finished call are gone
IngestLeave ==
    /\ window' = NoWindow
    /\ ipc' = "idle"
    /\ token' = None
    /\ page' = 0
    /\ total' = 0
    /\ records' = <<>>
    /\ filtered' = <<>>
    /\ sleeps' = 0
    /\ lastReq' = None
    /\ lastResp' = None
    /\ retTok' = None
    /\ submitted' = None

\* page += 1; records, token = fetch_page(from_d, until_d, token)
FetchCore(resp) ==
    /\ pc = "ingest"
    /\ ipc = "FETCHING"
    /\ page < MaxPages
    /\ page' = page + 1
    /\ oaiReqs' = oaiReqs + 1
    /\ lastReq' = Some(Request(window.from_d, window.until_d, token))
    /\ lastResp' = Some(resp)
    /\ LET r == fetch_page(window.from_d, window.until_d, token, resp) IN
       IF r.raised # None
       THEN /\ ipc' = "FAILED"
            /\ err' = r.raised
            /\ UNCHANGED <<records, token, retTok>>
       ELSE /\ ipc' = "FILTERING"
            /\ records' = r.docs
            /\ token' = r.ntok
            /\ retTok' = r.ntok
            /\ UNCHANGED err
    /\ UNCHANGED <<envVars, agentVars, indexExists, pc, gen, window, total, filtered,
                   grand, store, esCalls, bulkCalls, sleeps, submitted,
                   yielded, run, store1>>

Fetch(resp) == FetchCore(resp) /\ UNCHANGED served

\* filtered = filter_in_range(records, from_d, until_d), then filter_cs_only
Filter ==
    /\ pc = "ingest"
    /\ ipc = "FILTERING"
    /\ filtered' = LET f == filter_in_range(records, window.from_d, window.until_d)
                   IN IF args.cs_only THEN filter_cs_only(f) ELSE f
    /\ ipc' = "INDEXING"
    /\ UNCHANGED <<envVars, agentVars, indexExists, pc, gen, window, token, page, total,
                   records, grand, store, err, esCalls, bulkCalls, oaiReqs,
                   histVars, yielded, repeatVars>>

\* Index with total advanced by the number of documents the store accepted
Index_counts_stored ==
    /\ pc = "ingest"
    /\ ipc = "INDEXING"
    /\ IF filtered # <<>>
       THEN /\ store' = Bulk(store, Actions(filtered))
            /\ total' = total + Len(SelectSeq(Actions(filtered),
                                               LAMBDA a : ~Rejected(a)))
            /\ esCalls' = esCalls + 1
            /\ bulkCalls' = bulkCalls + 1
            /\ submitted' = Some(Actions(filtered))
       ELSE UNCHANGED <<store, total, esCalls, bulkCalls, submitted>>
    /\ ipc' = IF ~Truthy(token) THEN "DONE" ELSE "WAITING"
    /\ UNCHANGED <<envVars, agentVars, indexExists, pc, gen, window, token, page,
                   records, filtered, grand, err, oaiReqs, sleeps, lastReq,
                   lastResp, retTok, yielded, repeatVars>>

\* Index with the loop left when the filtered list is empty
Index_stops_on_empty ==
    /\ pc = "ingest"
    /\ ipc = "INDEXING"
    /\ IF filtered # <<>>
       THEN /\ store' = Bulk(store, Actions(filtered))
            /\ total' = total + Len(Actions(filtered))
            /\ esCalls' = esCalls + 1
            /\ bulkCalls' = bulkCalls + 1
            /\ submitted' = Some(Actions(filtered))
       ELSE UNCHANGED <<store, total, esCalls, bulkCalls, submitted>>
    /\ ipc' = IF ~Truthy(token) \/ filtered = <<>> THEN "DONE" ELSE "WAITING"
    /\ UNCHANGED <<envVars, agentVars, indexExists, pc, gen, window, token, page,
                   records, filtered, grand, err, oaiReqs, sleeps, lastReq,
                   lastResp, retTok, yielded, repeatVars>>

\* if filtered: bulk(...); total += len(actions).  Then the loop exit test.
Index ==
    /\ pc = "ingest"
    /\ ipc = "INDEXING"
    /\ IF filtered # <<>>
       THEN /\ store' = Bulk(store, Actions(filtered))
            /\ total' = total + Len(Actions(filtered))
            /\ esCalls' = esCalls + 1
            /\ bulkCalls' = bulkCalls + 1
            /\ submitted' = Some(Actions(filtered))
       ELSE UNCHANGED <<store, total, esCalls, bulkCalls, submitted>>
    /\ ipc' = IF ~Truthy(token) THEN "DONE" ELSE "WAITING"
    /\ UNCHANGED <<envVars, agentVars, indexExists, pc, gen, window, token, page,
                   records, filtered, grand, err, oaiReqs, sleeps, lastReq,
                   lastResp, retTok, yielded, repeatVars>>

\* The end of the loop body without the call of time.sleep
Wait_no_sleep ==
    /\ pc = "ingest"
    /\ ipc = "WAITING"
    /\ sleeps' = sleeps
    /\ ipc' = "FETCHING"
    /\ records' = <<>>
    /\ filtered' = <<>>
    /\ lastResp' = None
    /\ submitted' = None
    /\ UNCHANGED <<envVars, agentVars, indexExists, pc, gen, window, token, page, total,
                   grand, store, err, esCalls, bulkCalls, oaiReqs, lastReq,
                   retTok, yielded, repeatVars>>

\* time.sleep(1), back to the top of the loop.  records and filtered are
\* reassigned before they are read again; their old values are dropped here.
Wait ==
    /\ pc = "ingest"
    /\ ipc = "WAITING"
    /\ sleeps' = sleeps + 1
    /\ ipc' = "FETCHING"
    /\ records' = <<>>
    /\ filtered' = <<>>
    /\ lastResp' = None
    /\ submitted' = None
    /\ UNCHANGED <<envVars, agentVars, indexExists, pc, gen, window, token, page, total,
                   grand, store, err, esCalls, bulkCalls, oaiReqs, lastReq,
                   retTok, yielded, repeatVars>>

----------------------------------------------------------------------------
(* main *)

\* es = _get_es_client(); ensure_index(es)
EnsureIndex ==
    /\ pc = "ensure_index"
    /\ IF indexExists
       THEN /\ esCalls' = esCalls + 1
            /\ pc' = "dispatch"
            /\ UNCHANGED <<indexExists, err>>
       ELSE IF semantic
       THEN /\ esCalls' = esCalls + 1
            /\ pc' = "exit"
            /\ err' = Some([type |-> "SystemExit"])
            /\ UNCHANGED indexExists
       ELSE /\ esCalls' = esCalls + 2
            /\ indexExists' = TRUE
            /\ pc' = "dispatch"
            /\ UNCHANGED err
    /\ UNCHANGED <<envVars, agentVars, gen, localVars, grand, store, bulkCalls, oaiReqs,
                   histVars, yielded, repeatVars>>

\* The mode switch of main; single-range mode calls ingest_range at once
Dispatch ==
    /\ pc = "dispatch"
    /\ IF Backfill
       THEN /\ pc' = "backfill"
            /\ UNCHANGED <<localVars, histVars, err>>
       ELSE IF Single
       THEN /\ pc' = "ingest"
            /\ IngestCall([label |-> <<>>, from_d |-> args.from_[1],
                           until_d |-> StrMin(args.until[1], today)])
            /\ UNCHANGED err
       ELSE /\ pc' = "exit"
            /\ err' = Some([type |-> "SystemExit"])
            /\ UNCHANGED <<localVars, histVars>>
    /\ UNCHANGED <<envVars, agentVars, indexExists, gen, grand, store, esCalls,
                   bulkCalls, oaiReqs, yielded, repeatVars>>

\* One turn of "for label, from_d, until_d in month_range(start, end)"
BackfillNext ==
    /\ pc = "backfill"
    /\ LET r == month_range(gen, args.start[1], args.end[1], today) IN
       IF r.kind = "raise"
       THEN /\ pc' = "exit"
            /\ err' = Some(r.err)
            /\ gen' = [gen EXCEPT !.st = "closed"]
            /\ UNCHANGED <<localVars, histVars, yielded>>
       ELSE IF r.kind = "stop"
       THEN /\ pc' = "done"
            /\ gen' = [gen EXCEPT !.st = "closed"]
            /\ UNCHANGED <<localVars, histVars, yielded, err>>
       ELSE /\ pc' = "ingest"
            /\ gen' = r.gen
            /\ yielded' = Append(yielded, r.win)
            /\ IngestCall(r.win)
            /\ UNCHANGED err
    /\ UNCHANGED <<envVars, agentVars, indexExists, grand, store, esCalls, bulkCalls,
                   oaiReqs, repeatVars>>

\* ingest_range returned: n = ingest_range(...)
IngestReturn ==
    /\ pc = "ingest"
    /\ ipc = "DONE"
    /\ IF Backfill
       THEN /\ grand' = grand + total
            /\ pc' = "backfill"
       ELSE /\ grand' = total
            /\ pc' = "done"
    /\ IngestLeave
    /\ UNCHANGED <<envVars, agentVars, indexExists, gen, store, err, esCalls, bulkCalls,
                   oaiReqs, yielded, repeatVars>>

\* main with the exception of ingest_range caught and the month skipped
IngestRaise_skips_month ==
    /\ pc = "ingest"
    /\ ipc = "FAILED"
    /\ pc' = IF Backfill THEN "backfill" ELSE "exit"
    /\ IngestLeave
    /\ UNCHANGED <<envVars, agentVars, indexExists, gen, grand, store, err, esCalls,
                   bulkCalls, oaiReqs, yielded, repeatVars>>

\* An exception of ingest_range is not caught by main
IngestRaise ==
    /\ pc = "ingest"
    /\ ipc = "FAILED"
    /\ pc' = "exit"
    /\ IngestLeave
    /\ UNCHANGED <<envVars, agentVars, indexExists, gen, grand, store, err, esCalls,
                   bulkCalls, oaiReqs, yielded, repeatVars>>

Next ==
    \/ EnsureIndex
    \/ Dispatch
    \/ BackfillNext
    \/ \E resp \in Responses : Fetch(resp)
    \/ Filter
    \/ Index
    \/ Wait
    \/ IngestReturn
    \/ IngestRaise

Spec == Init /\ [][Next]_vars

----------------------------------------------------------------------------
(* Backfill planning over many month spans and dates, against an upstream *)
(* that answers with an empty last page, a one-record page with a token,   *)
(* or a transport failure.                                                 *)

Lin(ym) == ym[1] * 12 + ym[2]

PlanMonths ==
    {<<y, m>> : y \in 2023..2025, m \in 1..12} \cup {<<2024, 0>>, <<2024, 13>>}

PlanDates == {<<2024, 1, 1>>, <<2024, 3, 1>>, <<2024, 3, 31>>, <<2025, 6, 1>>}

PlanSpans ==
    {se \in PlanMonths \X PlanMonths :
        Lin(se[2]) - Lin(se[1]) < MaxMonths /\ Lin(se[1]) - Lin(se[2]) < 2}

PlanArgs ==
    {Args(Some(se[1]), Some(se[2]), None, None, FALSE) : se \in PlanSpans}
    \cup {Args(None, None, Some(f), Some(u), FALSE) : f \in PlanDates, u \in PlanDates}
    \cup {Args(Some(<<2024, 1>>), None, None, Some(Jan31), FALSE)}

PlanTodays == {<<2024, 3, 15>>, <<2025, 1, 1>>}

PlanResponses ==
    { OkPage(<<>>, Some(<<>>)),
      OkPage(<<rA1>>, Some(<<"t1">>)),
      [ok |-> FALSE, status |-> 503, wellFormed |-> TRUE, error |-> None,
       records |-> <<>>, rt |-> None] }

InitPlan == \E a \in PlanArgs : \E t \in PlanTodays : Start(a, t)

NextPlan ==
    \/ EnsureIndex
    \/ Dispatch
    \/ BackfillNext
    \/ \E resp \in PlanResponses : Fetch(resp)
    \/ Filter
    \/ Index
    \/ Wait
    \/ IngestReturn
    \/ IngestRaise

SpecPlan == InitPlan /\ [][NextPlan]_vars

----------------------------------------------------------------------------
(* ingest_range called twice over the same window, against an upstream     *)
(* that answers the k-th request of a call with the same page both times.  *)

TwiceResponses ==
    {OkPage(c, rt) :
        c \in {<<>>, <<rA1>>, <<rA1, rA2>>, <<rA2, rPad>>, <<rV>>,
               <<rOld, rA1, rNew>>, <<rNoDate, rBad>>},
        rt \in {None, Some(<<>>), Some(<<"t1">>), Some(<<" ", "t2", " ">>)}}
    \cup ErrorResponses

FetchDet ==
    IF page + 1 <= Len(served)
    THEN FetchCore(served[page + 1]) /\ UNCHANGED served
    ELSE \E resp \in TwiceResponses :
            FetchCore(resp) /\ served' = Append(served, resp)

Rerun ==
    /\ pc = "ingest"
    /\ ipc \in {"DONE", "FAILED"}
    /\ run = 1
    /\ run' = 2
    /\ store1' = store
    /\ err' = None
    /\ IngestCall(window)
    /\ UNCHANGED <<envVars, agentVars, indexExists, pc, gen, grand, store, esCalls,
                   bulkCalls, oaiReqs, yielded, served>>

InitTwice ==
    \E cs \in BOOLEAN :
        Start(Args(None, None, Some(Jan1), Some(Jan31), cs), <<2024, 2, 10>>)

NextTwice ==
    \/ EnsureIndex
    \/ Dispatch
    \/ FetchDet
    \/ Filter
    \/ Index
    \/ Wait
    \/ Rerun

SpecTwice == InitTwice /\ [][NextTwice]_vars

----------------------------------------------------------------------------
(* parse_record over raw identifiers: pages of two records whose ids are    *)
(* all the short texts over a letter, "v" and two digits.                   *)

IdChars == {"a", "v", "1", "2"}

IdTexts == UNION {[1..n -> IdChars] : n \in 1..MaxIdLen}

IdRecord(id) ==
    Raw(FALSE, TRUE, "arXiv", Some(id), Some(<<"T">>), Some(Jan1), <<CsAI>>)

ParseResponses ==
    {OkPage(<<IdRecord(s), IdRecord(t)>>, Some(<<>>)) : s \in IdTexts, t \in IdTexts}

InitParse ==
    /\ Start(Args(None, None, Some(Jan1), Some(Jan31), FALSE), <<2024, 2, 10>>)
    /\ indexExists
    /\ ~semantic

NextParse ==
    \/ EnsureIndex
    \/ Dispatch
    \/ (ipc = "FETCHING" /\ \E resp \in ParseResponses : Fetch(resp))

SpecParse == InitParse /\ [][NextParse]_vars

----------------------------------------------------------------------------
(* The coding agent loop of modal_runner/app.py: run_agent_loop.  The list  *)
(* messages is kept as its length, the role of its first entry and its last *)
(* entry; linked records whether every entry appended so far took its place *)
(* after its predecessor in a well-formed conversation.  steps is kept as   *)
(* its length.                                                              *)

MAX_AGENT_STEPS == 25

pipelineVars ==
    <<envVars, indexExists, pc, gen, localVars, grand, store, err, esCalls,
      bulkCalls, oaiReqs, histVars, yielded, repeatVars>>

TextBlock == [type |-> "text", id |-> ""]
ToolUse(id) == [type |-> "tool_use", id |-> id]
ToolResult(id) == [type |-> "tool_result", id |-> id]

Message(role, content) == [role |-> role, content |-> content]

\* messages.append(m)
MsgAppend(ms, m) ==
    [n |-> ms.n + 1, first |-> IF ms.n = 0 THEN m.role ELSE ms.first, last |-> m]

\* The tool_use blocks of a response, in order
ToolUses(content) == SelectSeq(content, LAMBDA b : b.type = "tool_use")

\* tool_results: one tool_result per tool_use block, with the block's id
ToolResults(content) ==
    [i \in 1..Len(ToolUses(content)) |-> ToolResult(ToolUses(content)[i].id)]

\* m may follow prev: the roles differ, and a user message after an
\* assistant message answers each of its tool_use blocks exactly once
Follows(prev, m) ==
    /\ prev.role # m.role
    /\ prev.role = "assistant"
       => \A k \in 1..Len(ToolUses(prev.content)) :
             Cardinality({i \in 1..Len(m.content) :
                             /\ m.content[i].type = "tool_result"
                             /\ m.content[i].id = ToolUses(prev.content)[k].id}) = 1

\* for step_num in range(MAX_AGENT_STEPS) has run out
RangeExhausted_one_more(n) == n > MAX_AGENT_STEPS

RangeExhausted(n) == n >= MAX_AGENT_STEPS

Response(stop_reason, content) == [stop_reason |-> stop_reason, content |-> content]

AgentResponses ==
    { Response("end_turn", <<TextBlock>>),
      Response("tool_use", <<ToolUse("toolu_1")>>),
      Response("tool_use", <<TextBlock, ToolUse("toolu_1")>>),
      Response("tool_use", <<ToolUse("toolu_1"), ToolUse("toolu_2")>>),
      Response("max_tokens", <<TextBlock>>),
      Response("max_tokens", <<TextBlock, ToolUse("toolu_1")>>) }

\* One turn of the loop with a response of the API: append it, return on
\* end_turn, run the commands of a tool_use response and append the results
AgentStep(resp) ==
    /\ apc = "loop"
    /\ ~RangeExhausted(step_num)
    /\ apiCalls' = apiCalls + 1
    /\ lastStop' = resp.stop_reason
    /\ LET asst == Message("assistant", resp.content)
           m1 == MsgAppend(messages, asst)
           l1 == linked /\ Follows(messages.last, asst)
       IN IF resp.stop_reason = "end_turn"
          THEN /\ messages' = m1
               /\ linked' = l1
               /\ result' = Some([status |-> "success", step_count |-> step_num + 1])
               /\ apc' = "returned"
               /\ UNCHANGED <<step_num, steps>>
          ELSE IF resp.stop_reason = "tool_use"
          THEN LET usr == Message("user", ToolResults(resp.content)) IN
               /\ messages' = MsgAppend(m1, usr)
               /\ linked' = (l1 /\ Follows(asst, usr))
               /\ steps' = steps + Len(ToolUses(resp.content))
               /\ step_num' = step_num + 1
               /\ UNCHANGED <<apc, result>>
          ELSE /\ messages' = m1
               /\ linked' = l1
               /\ step_num' = step_num + 1
               /\ UNCHANGED <<apc, result, steps>>
    /\ UNCHANGED pipelineVars

\* client.messages.create raised
ApiError ==
    /\ apc = "loop"
    /\ ~RangeExhausted(step_num)
    /\ apiCalls' = apiCalls + 1
    /\ lastStop' = "exception"
    /\ result' = Some([status |-> "error"])
    /\ apc' = "returned"
    /\ UNCHANGED <<step_num, messages, steps, linked, pipelineVars>>

\* The return after the loop
ReturnMax ==
    /\ apc = "loop"
    /\ RangeExhausted(step_num)
    /\ result' = Some([status |-> "max_steps_reached", step_count |-> MAX_AGENT_STEPS])
    /\ apc' = "returned"
    /\ UNCHANGED <<step_num, messages, steps, linked, apiCalls, lastStop,
                   pipelineVars>>

\* run_agent_loop at the top of its loop, messages holding the task
InitAgent ==
    /\ PipelineAt(Args(None, None, None, None, FALSE), <<2024, 2, 10>>, "off")
    /\ ~indexExists
    /\ ~semantic
    /\ apc = "loop"
    /\ step_num = 0
    /\ messages = MsgAppend(NoMessages, Message("user", <<TextBlock>>))
    /\ steps = 0
    /\ result = None
    /\ linked = TRUE
    /\ apiCalls = 0
    /\ lastStop = "none"

NextAgent ==
    \/ \E resp \in AgentResponses : AgentStep(resp)
    \/ ApiError
    \/ ReturnMax

\* Every API call returns or raises and every command ends or is timed out,
\* so a turn that can be taken is taken
SpecAgent == InitAgent /\ [][NextAgent]_vars /\ WF_vars(NextAgent)

----------------------------------------------------------------------------
(* Properties *)

\* The response is a successful page: HTTP ok, well-formed, no OAI error
\* element, and every record of it parses without an exception.
PageOk(resp) ==
    /\ resp.ok
    /\ resp.wellFormed
    /\ resp.error = None
    /\ ParseAll(resp.records, <<>>).raised = None

BlankToken(rt) == rt = None \/ Strip(rt[1]) = <<>>

\* C1: after a successful page whose resumptionToken element is absent,
\* empty or whitespace-only, fetch_page has returned the token None and
\* ingest_range goes on to DONE without another fetch (it is never FAILED).
C1_ExhaustedPageEndsDone ==
    (pc = "ingest" /\ lastResp # None /\ PageOk(lastResp[1])
        /\ BlankToken(lastResp[1].rt))
    => (ipc \in {"FILTERING", "INDEXING", "DONE"} /\ token = None)

\* C2: the first request of a window carries verb, metadataPrefix, from and
\* until and no token; every later request carries only the verb and the
\* token returned by the preceding page of the window.
C2_RequestShape ==
    [][ (page' = page + 1) =>
          lastReq' = Some(IF page = 0
                          THEN [verb |-> <<"ListRecords">>,
                                metadataPrefix |-> <<"arXiv">>,
                                from |-> window.from_d, until |-> window.until_d]
                          ELSE [verb |-> <<"ListRecords">>,
                                resumptionToken |-> retTok[1]]) ]_vars

\* C4: no document with an empty arxiv_id is returned by fetch_page or
\* submitted to the store.
C4_NoEmptyId ==
    /\ \A i \in 1..Len(records) : records[i].arxiv_id # <<>>
    /\ submitted # None =>
          \A i \in 1..Len(submitted[1]) : submitted[1][i]._id # <<>>

\* C3: in backfill mode with an invalid month or an inverted span, no
\* Elasticsearch call and no OAI request is ever made.
InvalidSpan ==
    \/ ~ParseOk(args.start[1])
    \/ ~ParseOk(args.end[1])
    \/ Lin(args.start[1]) > Lin(args.end[1])

C3_ValidationBeforeNetwork ==
    (Backfill /\ InvalidSpan) => (esCalls = 0 /\ oaiReqs = 0)

\* C5: after the second call over the same window the store holds the same
\* ids and as many documents as after the first, and it never holds two
\* documents with the same arxiv_id.
C5_Idempotent ==
    /\ (run = 2 /\ ipc \in {"DONE", "FAILED"}) =>
          /\ {e._id : e \in store} = {e._id : e \in store1}
          /\ Cardinality(store) = Cardinality(store1)
    /\ \A e1 \in store : \A e2 \in store :
          e1._source.arxiv_id = e2._source.arxiv_id => e1 = e2

\* C5 witness: the second call is done; the id "a" came twice in the first
\* batch and once more on the second page
C5_Witness ==
    /\ run = 2
    /\ ipc = "DONE"
    /\ Len(served) = 2
    /\ served[1].records = <<rA1, rA2>>
    /\ served[2].records = <<rA1>>
    /\ Cardinality(store) = 1

InWindow(d) ==
    StrLeq(window.from_d, d.created) /\ StrLeq(d.created, window.until_d)

RECURSIVE DocsInWindow(_)
DocsInWindow(docs) ==
    IF docs = <<>> THEN <<>>
    ELSE IF InWindow(Head(docs))
         THEN <<Head(docs)>> \o DocsInWindow(Tail(docs))
         ELSE DocsInWindow(Tail(docs))

SubmittedDocs ==
    IF submitted = None THEN <<>>
    ELSE [i \in 1..Len(submitted[1]) |-> submitted[1][i]._source]

PageHandled == pc = "ingest" /\ ipc \in {"DONE", "WAITING"}

\* C6 as stated: for every page, the documents submitted are exactly the
\* parsed documents of the page with from_d <= created <= until_d.
C6_SubmitsExactlyInWindow ==
    PageHandled => SubmittedDocs = DocsInWindow(records)

\* C6 amended: without category restriction the documents submitted are
\* exactly the parsed documents of the page with from_d <= created <=
\* until_d; with or without it, no document whose created is empty or
\* outside the window is submitted.
C6_SubmitsInWindow ==
    PageHandled =>
       /\ ~args.cs_only => SubmittedDocs = DocsInWindow(records)
       /\ \A i \in 1..Len(SubmittedDocs) :
             SubmittedDocs[i].created # <<>> /\ InWindow(SubmittedDocs[i])

\* C6 witness: on the second page of a window, one of three parsed
\* documents is inside the window and it alone was submitted
C6_Witness ==
    /\ PageHandled
    /\ ~args.cs_only
    /\ page = 2
    /\ Len(records) = 3
    /\ Len(SubmittedDocs) = 1

MonthOfLin(k) == <<(k - 1) \div 12, ((k - 1) % 12) + 1>>

CalendarLastDay(y, m) ==
    CASE m \in {1, 3, 5, 7, 8, 10, 12} -> 31
      [] m \in {4, 6, 9, 11} -> 30
      [] OTHER -> IF y % 400 = 0 \/ (y % 4 = 0 /\ y % 100 # 0) THEN 29 ELSE 28

ThisMonth == <<today[1], today[2]>>

\* What the claim covers: a valid span whose end month is not after the
\* current month
SpanUpToNow == Backfill /\ ~InvalidSpan /\ Lin(args.end[1]) <= Lin(ThisMonth)

\* The windows yielded so far are the first months of the span, in order,
\* each as Expected(ym) says; at the end there is one for every month.
YieldedAre(Expected(_)) ==
    LET first == Lin(args.start[1])
        n == Lin(args.end[1]) - first + 1
    IN /\ Len(yielded) <= n
       /\ \A i \in 1..Len(yielded) : yielded[i] = Expected(MonthOfLin(first + i - 1))
       /\ pc = "done" => Len(yielded) = n

FullMonth(ym) ==
    [label |-> ym, from_d |-> <<ym[1], ym[2], 1>>,
     until_d |-> <<ym[1], ym[2], CalendarLastDay(ym[1], ym[2])>>]

MonthUpToToday(ym) ==
    IF ym = ThisMonth THEN [FullMonth(ym) EXCEPT !.until_d = today]
    ELSE FullMonth(ym)

\* C7 as stated: one window per month of the span, in order, each from the
\* first day to the true last day of its month.
C7_FullMonths == SpanUpToNow => YieldedAre(FullMonth)

\* C7 amended: one window per month of the span, in order, each from the
\* first day to the true last day of its month, except that the window of
\* the current month ends today.
C7_MonthsUpToToday == SpanUpToNow => YieldedAre(MonthUpToToday)

\* C7 witness: the backfill 2023-12 .. 2024-02 is done; it crossed the year
\* boundary and ended on the 29th of February
C7_Witness ==
    /\ Backfill
    /\ pc = "done"
    /\ Len(yielded) = 3
    /\ yielded[1].until_d = <<2023, 12, 31>>
    /\ yielded[2].label = <<2024, 1>>
    /\ yielded[3].until_d = <<2024, 2, 29>>

\* C8: every yielded window starts and ends no later than today, the
\* window of the current month ends today, no window is yielded for a month
\* that starts after today, and single-range mode harvests up to
\* min(--until, today).
C8_ClampToToday ==
    /\ \A i \in 1..Len(yielded) :
          /\ StrLeq(yielded[i].from_d, today)
          /\ StrLeq(yielded[i].until_d, today)
          /\ yielded[i].label = ThisMonth => yielded[i].until_d = today
    /\ (Backfill /\ pc = "done") =>
          Len(yielded) = Cardinality({k \in Lin(args.start[1])..Lin(args.end[1]) :
                                        Lin(MonthOfLin(k)) <= Lin(ThisMonth)})
    /\ (Single /\ pc = "ingest") =>
          window.until_d = (IF StrLt(today, args.until[1]) THEN today
                            ELSE args.until[1])

\* C8 witness: a backfill reaching past the current month is done; its last
\* window is the current month, cut at today
C8_Witness ==
    /\ Backfill
    /\ pc = "done"
    /\ Lin(args.end[1]) > Lin(ThisMonth)
    /\ Len(yielded) = 2
    /\ yielded[2].label = ThisMonth
    /\ yielded[2].until_d = today
    /\ today[3] < CalendarLastDay(today[1], today[2])

\* C9: every window passed to ingest_range has from_date <= until_date.
C9_WindowOrdered ==
    pc = "ingest" => StrLeq(window.from_d, window.until_d)

\* The response makes fetch_page fail with a transport or protocol error
FetchError(resp) ==
    ~resp.ok \/ (resp.wellFormed /\ resp.error # None)

\* C10: when fetch_page fails on page k, the error ingest_range raises
\* carries the page number k and the count of documents submitted so far.
C10_ErrorCarriesProgress ==
    (pc = "ingest" /\ ipc = "FAILED" /\ lastResp # None /\ FetchError(lastResp[1]))
    => /\ err # None
       /\ "page" \in DOMAIN err[1]
       /\ "total" \in DOMAIN err[1]
       /\ err[1].page = page
       /\ err[1].total = total

\* The response is a protocol error: HTTP ok, well-formed, with an OAI
\* error element
ProtocolError(resp) ==
    resp.ok /\ resp.wellFormed /\ resp.error # None

\* C11: a page response with an OAI error element makes fetch_page raise an
\* error carrying the upstream code and message before any record of the
\* response is parsed; none of its records is returned, filtered or indexed,
\* and the store is unchanged by that page.
C11_ErrorBeforeRecords ==
    [][ (pc = "ingest" /\ page' = page + 1 /\ ProtocolError(lastResp'[1]))
        => /\ ipc' = "FAILED"
           /\ err' # None
           /\ err'[1].type = "RuntimeError"
           /\ "code" \in DOMAIN err'[1]
           /\ err'[1].code = lastResp'[1].error[1].code
           /\ err'[1].message = Strip(lastResp'[1].error[1].message)
           /\ records' = records
           /\ filtered' = filtered
           /\ submitted' = submitted
           /\ total' = total
           /\ bulkCalls' = bulkCalls
           /\ store' = store ]_vars

\* C11 witness: the second page is an error response that also has records;
\* the fetch failed and the first page's document is still the whole store
C11_Witness ==
    /\ pc = "ingest"
    /\ ipc = "FAILED"
    /\ page = 2
    /\ lastResp # None
    /\ ProtocolError(lastResp[1])
    /\ lastResp[1].records # <<>>
    /\ err # None
    /\ "code" \in DOMAIN err[1]
    /\ Cardinality(store) = 1

\* A page fetch of the current window has failed and nothing was done since
FetchFailed ==
    pc = "ingest" /\ ipc = "FAILED"

\* C12: in backfill mode, once the fetch of a page of some month fails, the
\* request is not retried and no further OAI request or bulk write is made
\* for that month or a later one: the run ends with the uncaught error, and
\* what earlier pages and months indexed stays in the store.
C12_FailedFetchAborts ==
    [][ Backfill
        => /\ FetchFailed => (pc' = "exit" /\ err' = err /\ err' # None)
           /\ (FetchFailed \/ pc = "exit")
              => /\ oaiReqs' = oaiReqs
                 /\ bulkCalls' = bulkCalls
                 /\ store' = store
                 /\ yielded' = yielded
           /\ (ipc' = "FAILED" /\ ipc # "FAILED") => store' = store ]_vars

\* C12 witness: a two-month backfill ended on the failed second page of its
\* first month; the first page's document is stored, the second month was
\* never requested
C12_Witness ==
    /\ Backfill
    /\ pc = "exit"
    /\ err # None
    /\ err[1].type = "RuntimeError"
    /\ Len(yielded) = 1
    /\ Lin(args.end[1]) > Lin(yielded[1].label)
    /\ oaiReqs = 2
    /\ bulkCalls = 1
    /\ store # {}

\* C13: ingest_range returns the sum over its pages of the number of
\* documents that passed the filters; documents the store rejects raise
\* nothing, are counted all the same and do not stop later pages; the grand
\* total of a backfill is the sum of the per-month returns.
C13_ReturnsSubmittedCount ==
    [][ /\ (pc = "ingest" /\ ipc = "INDEXING" /\ ipc' # "INDEXING")
           => /\ total' = total + Len(filtered)
              /\ ipc' \in {"DONE", "WAITING"}
              /\ ipc' = "WAITING" <=> retTok # None
              /\ err' = err
        /\ (pc' = "ingest" /\ pc # "ingest") => total' = 0
        /\ (pc = "ingest" /\ pc' = "ingest" /\ ipc # "INDEXING")
           => total' = total
        /\ (pc = "ingest" /\ ipc = "DONE" /\ pc' # "ingest")
           => grand' = IF Backfill THEN grand + total ELSE total
        /\ grand' # grand => (pc = "ingest" /\ ipc = "DONE") ]_vars

\* C13 witness: a finished two-month backfill whose grand total is 2 while
\* the store took none of the submitted documents
C13_Witness ==
    /\ Backfill
    /\ pc = "done"
    /\ Len(yielded) = 2
    /\ grand = 2
    /\ bulkCalls = 2
    /\ store = {}

\* The records of a response whose header status is not "deleted"
Live(recs) == SelectSeq(recs, LAMBDA rec : ~rec.deleted)

\* The documents parse_record gives for recs, in order
RECURSIVE Parsed(_)
Parsed(recs) ==
    IF recs = <<>> THEN <<>>
    ELSE LET r == parse_record(Head(recs)) IN
         (IF r.kind = "doc" THEN <<r.doc>> ELSE <<>>) \o Parsed(Tail(recs))

\* The response is served and read without error when its deleted records
\* are left unparsed
LiveOk(resp) ==
    /\ resp.ok
    /\ resp.wellFormed
    /\ resp.error = None
    /\ resp.rt # None
    /\ \A i \in 1..Len(resp.records) :
          ~resp.records[i].deleted => parse_record(resp.records[i]).kind # "raise"

\* The normalized identifiers of the deleted records of a response
DeletedIds(resp) ==
    {StripVersion(Strip(resp.records[i].id[1])) :
        i \in {j \in 1..Len(resp.records) :
                  resp.records[j].deleted /\ resp.records[j].id # None}}

\* C14: a record whose header status is "deleted" is never given to
\* parse_record, never appears among the documents fetch_page returns and is
\* never written to the store, whatever its metadata holds; the other
\* records of the page are parsed as if it were not there.
C14_DeletedSkipped ==
    (pc = "ingest" /\ lastResp # None /\ LiveOk(lastResp[1]))
    => /\ ipc # "FAILED"
       /\ records = Parsed(Live(lastResp[1].records))
       /\ \A i \in 1..Len(records) :
             records[i].arxiv_id \notin DeletedIds(lastResp[1])
       /\ \A a \in store : a._id \notin DeletedIds(lastResp[1])

\* C14 witness: a page of a deleted record whose metadata cannot be parsed
\* and a live record was handled to the end; the live one alone was returned
C14_Witness ==
    /\ pc = "ingest"
    /\ ipc = "DONE"
    /\ lastResp # None
    /\ lastResp[1].records = <<rDelBare, rA1>>
    /\ Len(records) = 1
    /\ records[1].arxiv_id = <<"a">>
    /\ Cardinality(store) = 1

\* s ends with a version suffix: "v" and one or more digits at the very end
HasVersionSuffix(s) ==
    \E k \in 1..(Len(s) - 1) :
        s[k] = "v" /\ \A j \in (k + 1)..Len(s) : s[j] \in Digits

\* s and t are one base followed by a version suffix each
SameBase(s, t) ==
    \E k \in 1..(Len(s) - 1) :
        /\ k < Len(t)
        /\ SubSeq(s, 1, k) = SubSeq(t, 1, k)
        /\ s[k] = "v"
        /\ \A j \in (k + 1)..Len(s) : s[j] \in Digits
        /\ \A j \in (k + 1)..Len(t) : t[j] \in Digits

\* The raw identifier of the i-th record of the last response
RawId(i) == lastResp[1].records[i].id[1]

\* C15: two raw identifiers that differ only by their trailing version
\* suffix get the same arxiv_id from parse_record; an identifier without a
\* trailing version suffix, also one with "v" and digits elsewhere, is left
\* as it is.
C15_VersionCollapse ==
    (pc = "ingest" /\ ipc = "FILTERING" /\ lastResp # None
        /\ Len(lastResp[1].records) = 2)
    => /\ Len(records) = 2
       /\ SameBase(RawId(1), RawId(2))
          => records[1].arxiv_id = records[2].arxiv_id
       /\ \A i \in 1..2 :
             ~HasVersionSuffix(RawId(i)) => records[i].arxiv_id = RawId(i)

\* C15 witness: a page with the ids av1 and av2 was parsed into two documents
\* with the arxiv_id a
C15_Witness ==
    /\ pc = "ingest"
    /\ ipc = "FILTERING"
    /\ lastResp # None
    /\ Len(lastResp[1].records) = 2
    /\ RawId(1) = <<"a", "v", "1">>
    /\ RawId(2) = <<"a", "v", "2">>
    /\ Len(records) = 2
    /\ records[1].arxiv_id = <<"a">>
    /\ records[2].arxiv_id = <<"a">>

\* Some category of d starts with the characters "cs."
HasCs(d) ==
    \E i \in 1..Len(d.categories) :
        LET c == d.categories[i] IN Len(c) >= 2 /\ c[1] = "cs" /\ c[2] = "."

RECURSIVE CsDocsInWindow(_)
CsDocsInWindow(docs) ==
    IF docs = <<>> THEN <<>>
    ELSE (IF InWindow(Head(docs)) /\ HasCs(Head(docs)) THEN <<Head(docs)>> ELSE <<>>)
         \o CsDocsInWindow(Tail(docs))

\* C16: with cs_only set, the documents submitted for a page are those
\* parsed documents of the page that pass the date filter and have at least
\* one category starting with "cs.", in their order and unmodified.
C16_CsOnlySubmits ==
    (PageHandled /\ args.cs_only) => SubmittedDocs = CsDocsInWindow(records)

\* C16 witness: of four in-window documents with the categories math.CO;
\* math.CO and cs.DS; CS.AI, cs and math.cs.; cs.AI, the second and the
\* fourth were submitted, in that order
C16_Witness ==
    /\ PageHandled
    /\ args.cs_only
    /\ Len(records) = 4
    /\ \A i \in 1..4 : InWindow(records[i])
    /\ Len(SubmittedDocs) = 2
    /\ SubmittedDocs[1] = records[2]
    /\ SubmittedDocs[2] = records[4]
    /\ records[2].categories = <<MathCO, CsDS>>

\* C17: within one window the one-second wait happens exactly once between
\* two consecutive page fetches, and only after the batch of the earlier
\* page was submitted: before the fetch of page k+1 there were k waits, from
\* the fetch of page k to the end of its handling there were k-1, and none
\* follows the last page.
C17_OneWaitBetweenFetches ==
    [][ /\ pc = "ingest"
           => sleeps = IF ipc = "FETCHING" THEN page ELSE page - 1
        /\ sleeps' = sleeps + 1
           => (pc = "ingest" /\ ipc = "WAITING" /\ retTok # None /\ page' = page)
        /\ (pc = "ingest" /\ ipc' = "WAITING" /\ ipc # "WAITING")
           => /\ ipc = "INDEXING"
              /\ filtered # <<>> => submitted' = Some(Actions(filtered))
        /\ (pc = "ingest" /\ page' = page + 1 /\ page >= 1)
           => (sleeps = page /\ sleeps' = sleeps)
        /\ (pc = "ingest" /\ ipc = "DONE") => sleeps' \in {0, sleeps} ]_vars

\* C17 witness: a window of two pages ended after one wait
C17_Witness ==
    /\ pc = "ingest"
    /\ ipc = "DONE"
    /\ page = 2
    /\ sleeps = 1
    /\ oaiReqs >= 2

\* C18: a page whose filtered list is empty causes no bulk call and leaves
\* total and the store as they are, and the loop goes on as for any page:
\* to the wait and the next fetch when the page returned a token, to the
\* end when it did not.
C18_EmptyPageAdvances ==
    [][ (pc = "ingest" /\ ipc = "INDEXING" /\ ipc' # "INDEXING")
        => /\ filtered = <<>>
              => /\ bulkCalls' = bulkCalls
                 /\ esCalls' = esCalls
                 /\ total' = total
                 /\ store' = store
                 /\ submitted' = None
           /\ ipc' = IF retTok # None THEN "WAITING" ELSE "DONE" ]_vars

\* C18 witness: a second page was fetched after a first page with nothing
\* to submit; it had records but none to submit either, and the window
\* ended with no bulk call at all
C18_Witness ==
    /\ pc = "ingest"
    /\ ipc = "DONE"
    /\ page = 2
    /\ total = 0
    /\ bulkCalls = 0
    /\ records # <<>>
    /\ filtered = <<>>
    /\ store = {}

\* The status returned and the event it was returned on
StatusOk ==
    result # None
    => /\ result[1].status \in {"success", "error", "max_steps_reached"}
       /\ result[1].status = "success"
          <=> (lastStop = "end_turn" /\ result[1].step_count = apiCalls)
       /\ result[1].status = "error" <=> lastStop = "exception"
       /\ result[1].status = "max_steps_reached"
          <=> (apiCalls = MAX_AGENT_STEPS /\ lastStop \notin {"end_turn", "exception"})

\* C19: run_agent_loop calls the model API at most MAX_AGENT_STEPS times and
\* always returns, with status success at the first end_turn response, error
\* at the first API exception, max_steps_reached after MAX_AGENT_STEPS
\* responses none of which was end_turn; the returning step runs no command
\* and none runs after it.
C19_AgentTerminates ==
    /\ [](/\ apiCalls <= MAX_AGENT_STEPS
          /\ apc = "returned" <=> result # None
          /\ StatusOk
          /\ apc = "loop" => lastStop \notin {"end_turn", "exception"})
    /\ [][(apc' = "returned" \/ apc = "returned") => steps' = steps]_vars
    /\ <>(apc = "returned")

\* C19 witness: the loop returned max_steps_reached after MAX_AGENT_STEPS
\* calls, having run commands
C19_Witness ==
    /\ apc = "returned"
    /\ result # None
    /\ result[1].status = "max_steps_reached"
    /\ apiCalls = MAX_AGENT_STEPS
    /\ steps > 0

\* C20: at every API call messages starts with a user message, alternates
\* between user and assistant, ends with a user message, and each tool_use
\* block of an assistant message is answered by exactly one tool_result of
\* the same id in the next user message, whatever stop_reason came before.
C20_MessagesWellFormed ==
    (apc = "loop" /\ ~RangeExhausted(step_num))
    => /\ messages.first = "user"
       /\ messages.last.role = "user"
       /\ linked

====
